---------------------------- MODULE Spec2Model ----------------------------
(***************************************************************************)
(* A model of three parts of OpenSfM:                                      *)
(*   - geometry/src/triangulation.cc : the triangulation solvers and the   *)
(*     point refinement,                                                   *)
(*   - dense/depthmap_bind.h         : the Python binding wrappers of the  *)
(*     dense depth-map estimator, cleaner and pruner,                      *)
(*   - bundle/test/reprojection_errors_test.cc : the calls the unit tests  *)
(*     make into the reprojection-error cost functions.                    *)
(*                                                                         *)
(* Arithmetic.  The code computes in IEEE doubles.  The model computes in  *)
(* exact integers and rationals on inputs where the double computation is  *)
(* exact or where no comparison lies on a rounding boundary:               *)
(*   - a vector is a triple of integers; a triangulated point is a triple  *)
(*     of integer numerators over one positive denominator;                *)
(*   - an angle is never converted to radians: acos(d / sqrt(n)) is kept   *)
(*     as the pair <<d, n>> (n > 0), and two angles are compared through   *)
(*     their cosines.  NaN is a value of its own, and every comparison     *)
(*     with it is false, as in IEEE arithmetic.                            *)
(***************************************************************************)
EXTENDS Integers, Sequences, FiniteSets, TLC

VARIABLES
    \* ---- triangulation.cc: one call of a triangulation function
    fn,             \* the function called: "DLT" | "Midpoint" | "Many" |
                    \*   "PointRefinement" | "none"
    Rts,            \* sequence of 3x4 pose matrices (DLT)
    centers,        \* sequence of camera centers (Midpoint, PointRefinement)
    bearings,       \* sequence of bearings, paired with Rts / centers
    threshold,      \* the per-call threshold (DLT)
    threshold_list, \* the per-view thresholds (Midpoint)
    min_angle,
    min_depth,
    triPc,          \* "ready" | "returned" | "idle"
    result,         \* the record the call returned
    szPc,           \* "ready" | "returned" | "idle": a call whose containers
                    \*   may differ in size
    access,         \* that call's first out-of-range read, its assertion
                    \*   and its outcome
    \* ---- triangulation.cc: TriangulateTwoBearingsMidpointMany
    bearings1,      \* rows of the first camera's bearings
    bearings2,      \* rows of the second camera's bearings
    rotation,
    translation,
    manyPc,         \* "ready" | "returned" | "idle"
    triangulated,   \* the returned sequence of [ok, point]
    \* ---- triangulation.cc: PointRefinement
    point,          \* the caller's initial point
    iterations,     \* the caller's iteration count
    refined,        \* the local the solver works on
    max_num_iterations, \* solver.options.max_num_iterations
    summary,        \* the solver's [iterations, status]
    solver_steps,   \* loop bodies the solver has run
    refPc,          \* "ready" | "solving" | "solved" | "returned" | "idle"
    refined_point,  \* the value PointRefinement returned
    \* ---- depthmap_bind.h: one wrapper object used by host-runtime threads
    wrapper,        \* "Estimator" | "Cleaner" | "Pruner" | "none"
    views,          \* the views the native object has been given
    gil,            \* the thread holding the host-runtime lock, 0 if free
    pc,             \* per thread: "waiting" | "python" | "native" |
                    \*   "reacquire" | "build"
    op,             \* per thread: the long-running operation it is in
    last,           \* the last AddView call: arguments, outcome, views
    \* ---- reprojection_errors_test.cc: the analytic-Jacobian tests
    settings,       \* the value the native object holds for each Set* method
    tests_done,     \* the tests that have run
    test,           \* the test running, "none" between tests
    testPc,         \* "idle" | "setup" | "autodiff" | "evaluated" | "off"
    autodiff_args,  \* arguments of the last call of the generic functor
    params,         \* the parameter arrays of the last Evaluate call
    jacobians       \* the Jacobian buffers of the last Evaluate call

triVars == <<fn, Rts, centers, bearings, threshold, threshold_list, min_angle,
             min_depth, triPc, result, szPc, access>>

manyVars == <<bearings1, bearings2, rotation, translation, manyPc, triangulated>>

refVars == <<point, iterations, refined, max_num_iterations, summary,
             solver_steps, refPc, refined_point>>

bindVars == <<wrapper, views, gil, pc, op, last, settings>>

testVars == <<tests_done, test, testPc, autodiff_args, params, jacobians>>

vars == <<triVars, manyVars, refVars, bindVars, testVars>>

-----------------------------------------------------------------------------
(* Bounds of the model.                                                    *)
MaxViews == 3

-----------------------------------------------------------------------------
(* Vectors and matrices (foundation/types.h: Vec3d, Mat3d, Mat34d, Vec4d). *)

Dot(u, v) == u[1] * v[1] + u[2] * v[2] + u[3] * v[3]

Dot4(u, v) == u[1] * v[1] + u[2] * v[2] + u[3] * v[3] + u[4] * v[4]

Sub3(u, v) == <<u[1] - v[1], u[2] - v[2], u[3] - v[3]>>

Add3(u, v) == <<u[1] + v[1], u[2] + v[2], u[3] + v[3]>>

Scale3(k, u) == <<k * u[1], k * u[2], k * u[3]>>

Zero3 == <<0, 0, 0>>

Abs(x) == IF x < 0 THEN -x ELSE x

Sign(x) == IF x < 0 THEN -1 ELSE IF x > 0 THEN 1 ELSE 0

\* M * v for a 3x3 matrix given as its three rows.
MatVec(M, v) == <<Dot(M[1], v), Dot(M[2], v), Dot(M[3], v)>>

Transpose(M) == << <<M[1][1], M[2][1], M[3][1]>>,
                   <<M[1][2], M[2][2], M[3][2]>>,
                   <<M[1][3], M[2][3], M[3][3]>> >>

\* Rt.block<3, 3>(0, 0) of a 3x4 matrix given as its three rows.
RotationOf(Rt) == << <<Rt[1][1], Rt[1][2], Rt[1][3]>>,
                     <<Rt[2][1], Rt[2][2], Rt[2][3]>>,
                     <<Rt[3][1], Rt[3][2], Rt[3][3]>> >>

\* Rt * X for a 3x4 matrix and a homogeneous 4-vector.
Mat34Vec(Rt, X) == <<Dot4(Rt[1], X), Dot4(Rt[2], X), Dot4(Rt[3], X)>>

\* The pose matrix [R | -R c] of a camera with rotation R and center c.
PoseMatrix(R, c) ==
    LET t == Scale3(-1, MatVec(R, c))
    IN  << <<R[1][1], R[1][2], R[1][3], t[1]>>,
           <<R[2][1], R[2][2], R[2][3], t[2]>>,
           <<R[3][1], R[3][2], R[3][3], t[3]>> >>

-----------------------------------------------------------------------------
(* Angles as doubles.  <<d, n, e>> stands for the double that lies e ulps   *)
(* above the reference double of the angle acos(d / sqrt(n)), 0 <= angle   *)
(* <= pi.  The reference double of an angle k pi / q is the value of the   *)
(* expression k * M_PI / q, which is how a caller writes a threshold or a  *)
(* min_angle; e is 0 for every other angle.  Two doubles of different      *)
(* angles compare as the angles do, two doubles of one angle as their e.   *)

NaN == <<0, 0, 0>>

Angle0 == <<1, 1, 0>>       \* 0.0
AnglePi6 == <<3, 12, 0>>    \* M_PI / 6   (cos = sqrt(3) / 2)
AnglePi2 == <<0, 1, 0>>     \* M_PI / 2
AnglePi3 == <<1, 4, 0>>     \* M_PI / 3   (cos = 1 / 2)
AnglePi == <<-1, 1, 0>>     \* M_PI

IsNaN(a) == a[2] = 0

\* The sign of a - b for two doubles that are not NaN.
Compare(a, b) ==
    LET above(x, y) ==      \* the angle of x is above that of y: cos x < cos y
            IF x[1] >= 0 /\ y[1] >= 0 THEN x[1] * x[1] * y[2] < y[1] * y[1] * x[2]
            ELSE IF x[1] < 0 /\ y[1] < 0 THEN x[1] * x[1] * y[2] > y[1] * y[1] * x[2]
            ELSE x[1] < 0
    IN  IF above(a, b) THEN 1
        ELSE IF above(b, a) THEN -1
        ELSE Sign(a[3] - b[3])

\* a > b on doubles: false when either is NaN.
AngleGT(a, b) == ~IsNaN(a) /\ ~IsNaN(b) /\ Compare(a, b) > 0

\* a >= b on doubles: false when either is NaN.
AngleGE(a, b) == ~IsNaN(a) /\ ~IsNaN(b) /\ Compare(a, b) >= 0

\* a <= b on doubles: false when either is NaN.
AngleLE(a, b) == AngleGE(b, a)

\* M_PI - a for a = k * M_PI / q: the doubles M_PI - 5 * M_PI / 6,
\* M_PI - 2 * M_PI / 3 and M_PI - M_PI / 3 are not M_PI / 6, M_PI / 3 and
\* 2 * M_PI / 3 but their neighbours; the other differences are exact.
PiMinus(a) ==
    LET d == -a[1]
        n == a[2]
        e == IF 4 * d * d = 3 * n /\ d > 0 THEN -1
             ELSE IF 4 * d * d = n /\ d # 0 THEN 1
             ELSE 0
    IN  <<d, n, e - a[3]>>

-----------------------------------------------------------------------------
(* triangulation.cc, anonymous namespace.                                  *)

RECURSIVE OddPart(_)
OddPart(d) == IF d # 0 /\ d % 2 = 0 THEN OddPart(d \div 2) ELSE d

\* The odd parts up to which the two tables below hold the rounding of acos.
AcosTabled == 255

\* The odd parts d, up to AcosTabled, of the dot products for which
\* acos(d / sqrt(2 d d)) is the double above M_PI / 4; for the others it is
\* M_PI / 4 itself.
AcosAbovePi4 ==
    {1, 5, 15, 19, 25, 27, 35, 37, 43, 45, 49, 55, 59, 65, 69, 75, 79, 81, 85,
     93, 95, 103, 105, 113, 115, 123, 125, 133, 135, 143, 145, 153, 155, 157,
     163, 165, 167, 175, 177, 185, 191, 195, 201, 205, 211, 215, 221, 225,
     231, 235, 241, 245, 251, 255}

\* The odd parts d, up to AcosTabled, of the dot products for which
\* acos(d / sqrt(4 d d / 3)) is the double above M_PI / 6; for the others it
\* is the double below.
AcosAbovePi6 ==
    {9, 15, 27, 45, 63, 69, 81, 99, 111, 117, 129, 135, 147, 153, 171, 189,
     207, 225, 231, 243, 249}

\* The places acos(c), c = d / sqrt(n) rounded twice, can have among the
\* doubles of its angle.  c is exactly 1/2 or -1/2 or 0 when the angle is
\* pi/3, 2 pi/3 or pi/2.  When it is pi/4 or pi/6, c is one of the two doubles
\* around the cosine, according to the odd part of d (a power of two in d
\* scales sqrt(n) by the same power and leaves c alone): the tables say
\* which, and past the tables either is possible.  The two values of c
\* around the cosine of 3 pi/4 or 5 pi/6 have the same acos.
AcosUlps(d, n) ==
    IF 4 * d * d = n /\ d # 0 THEN {1}
    ELSE IF 2 * d * d = n /\ d > 0
         THEN IF OddPart(d) > AcosTabled THEN {0, 1}
              ELSE IF OddPart(d) \in AcosAbovePi4 THEN {1} ELSE {0}
    ELSE IF 4 * d * d = 3 * n /\ d > 0
         THEN IF OddPart(d) > AcosTabled THEN {-1, 1}
              ELSE IF OddPart(d) \in AcosAbovePi6 THEN {1} ELSE {-1}
    ELSE {0}

\* The doubles the call can return.  c = u.v / sqrt(u.u * v.v); |c| >= 1
\* gives 0.0, otherwise acos(c).  With a zero vector c is 0/0 = NaN,
\* fabs(NaN) >= 1.0 is false and acos(NaN) is NaN.
AngleBetweenVectors(u, v) ==
    LET uv == Dot(u, v)
        nn == Dot(u, u) * Dot(v, v)
    IN  IF nn = 0 THEN {NaN}
        ELSE IF uv * uv >= nn THEN {Angle0}
        ELSE {<<uv, nn, e>> : e \in AcosUlps(uv, nn)}

-----------------------------------------------------------------------------
(* Points.  A finite point is num / den with den > 0.  A point with den = 0 *)
(* is not finite (a division by zero produced it): all its coordinates, and *)
(* everything computed from them, compare false.  Uninit is the value of a  *)
(* default-constructed Vec3d(), returned beside a false flag.               *)

RECURSIVE GCD(_, _)
GCD(a, b) == IF b = 0 THEN Abs(a) ELSE GCD(b, a % Abs(b))

\* num / den in lowest terms, den > 0.
Finite(num, den) ==
    LET g == GCD(GCD(GCD(num[1], num[2]), num[3]), den)
    IN  [num |-> <<num[1] \div g, num[2] \div g, num[3] \div g>>, den |-> den \div g]

NonFinite == [num |-> Zero3, den |-> 0]

\* A point with finite coordinates that the model does not compute: the
\* result of a solve on a system without an exact solution, or of a
\* division by a fourth component that is rounding noise.
Inexact == [num |-> Zero3, den |-> -2]

Uninit == [num |-> Zero3, den |-> -1]

IsFinite(p) == p.den > 0 \/ p = Inexact

\* AngleBetweenVectors(projected, measured) for projected = p.num / p.den.
AngleToBearing(p, measured) ==
    IF p.den = 0 THEN {NaN} ELSE AngleBetweenVectors(p.num, measured)

\* projected.dot(measured) < depth for projected = p.num / p.den.
DotBelow(p, measured, depth) ==
    p.den # 0 /\ Dot(p.num, measured) < depth * p.den

\* A parallax test that forgets the upper bound.
ParallaxLowerBoundOnly(angle, minAngle) == AngleGE(angle, minAngle)

\* angle >= min_angle && angle <= M_PI - min_angle
ParallaxInRange(angle, minAngle) ==
    AngleGE(angle, minAngle) /\ AngleLE(angle, PiMinus(minAngle))

\* The inner loop of the parallax test: j = from .. i - 1 (1-based), stopping
\* at the first pair in range.  The flags it can end with.
RECURSIVE AngleOkInner(_, _, _, _)
AngleOkInner(rays, i, j, minAngle) ==
    IF j >= i THEN {FALSE}
    ELSE LET r == {ParallaxInRange(a, minAngle) :
                      a \in AngleBetweenVectors(rays[i], rays[j])}
         IN  (IF TRUE \in r THEN {TRUE} ELSE {})
             \cup (IF FALSE \in r
                   THEN AngleOkInner(rays, i, j + 1, minAngle)
                   ELSE {})

\* The outer loop of the parallax test: i = from .. count (1-based).  The
\* flags it can end with.
RECURSIVE AngleOkOuter(_, _, _, _)
AngleOkOuter(rays, i, count, minAngle) ==
    IF i > count THEN {FALSE}
    ELSE LET r == AngleOkInner(rays, i, 1, minAngle)
         IN  (IF TRUE \in r THEN {TRUE} ELSE {})
             \cup (IF FALSE \in r
                   THEN AngleOkOuter(rays, i + 1, count, minAngle)
                   ELSE {})

\* Some double of [0.0, M_PI], whichever: what acos returns for a ray the
\* model knows nothing about.
AnyAngle == <<0, -1, 0>>

\* The reprojection loop: the first view over its threshold, or under the
\* minimum depth, fails the call.  projected[i] is the point seen from view i.
\* The doubles AngleBetweenVectors(projected, measured) can return when
\* projected is p.num / p.den up to the rounding of the solve: an angle on a
\* bound is on either side of it, a ray along or against the bearing gives
\* |c| >= 1 (0.0) or the angle next to 0 or pi, and a ray of length zero
\* comes out as zero (NaN) or as rounding noise of any direction (AnyAngle).
NoisyAngles(p, measured) ==
    LET uv == Dot(p.num, measured)
        nn == Dot(p.num, p.num) * Dot(measured, measured)
    IN  IF p.den = 0 \/ Dot(measured, measured) = 0 THEN {NaN}
        ELSE IF nn = 0 THEN {NaN, AnyAngle}
        ELSE IF uv * uv = nn
             THEN {Angle0, IF uv > 0 THEN <<1, 1, 1>> ELSE <<-1, 1, -1>>}
        ELSE {<<uv, nn, e>> : e \in -1..1}

\* The values projected.dot(measured) < depth can take when projected is
\* p.num / p.den up to the rounding of the solve.
NoisyDotBelow(p, measured, depth) ==
    IF p.den # 0 /\ Dot(p.num, measured) = depth * p.den THEN BOOLEAN
    ELSE {DotBelow(p, measured, depth)}

\* The values "view rejected" can take in one turn of the post-check loop.
\* exact: the doubles of projected are p.num / p.den exactly.
Rejects(p, measured, thr, depth, exact) ==
    LET \* the values a > thr can take: no angle is above M_PI
        above(a) == IF a # AnyAngle THEN {AngleGT(a, thr)}
                    ELSE IF IsNaN(thr) \/ Compare(thr, AnglePi) >= 0 THEN {FALSE}
                    ELSE BOOLEAN
    IN  IF exact
        THEN {AngleGT(a, thr) \/ DotBelow(p, measured, depth) :
                a \in AngleToBearing(p, measured)}
        ELSE UNION {{gt \/ b : gt \in above(a),
                               b \in NoisyDotBelow(p, measured, depth)} :
                      a \in NoisyAngles(p, measured)}

\* The flags the post-check loop can end with.
RECURSIVE ReprojectionOk(_, _, _, _, _, _, _)
ReprojectionOk(projected, measured, thresholds, depth, exact, i, count) ==
    IF i > count THEN {TRUE}
    ELSE LET r == Rejects(projected[i], measured[i], thresholds[i], depth, exact)
         IN  (IF TRUE \in r THEN {FALSE} ELSE {})
             \cup (IF FALSE \in r
                   THEN ReprojectionOk(projected, measured, thresholds, depth,
                                       exact, i + 1, count)
                   ELSE {})

-----------------------------------------------------------------------------
(* TriangulateBearingsDLTSolve.                                            *)

Det3(M) ==
      M[1][1] * (M[2][2] * M[3][3] - M[2][3] * M[3][2])
    - M[1][2] * (M[2][1] * M[3][3] - M[2][3] * M[3][1])
    + M[1][3] * (M[2][1] * M[3][2] - M[2][2] * M[3][1])

\* The vector orthogonal to three 4-vectors (zero iff they are dependent).
Cross4(a, b, c) ==
    <<  Det3(<< <<a[2], a[3], a[4]>>, <<b[2], b[3], b[4]>>, <<c[2], c[3], c[4]>> >>),
      - Det3(<< <<a[1], a[3], a[4]>>, <<b[1], b[3], b[4]>>, <<c[1], c[3], c[4]>> >>),
        Det3(<< <<a[1], a[2], a[4]>>, <<b[1], b[2], b[4]>>, <<c[1], c[2], c[4]>> >>),
      - Det3(<< <<a[1], a[2], a[3]>>, <<b[1], b[2], b[3]>>, <<c[1], c[2], c[3]>> >>) >>

Zero4 == <<0, 0, 0, 0>>

\* The 2 nviews x 4 system: rows 2i and 2i + 1 of view i.
DLTSystem(brs, poses) ==
    [r \in 1..(2 * Len(brs)) |->
        LET i == (r + 1) \div 2
            \* bearings(i, a) * Rts[i].row(2) - bearings(i, 2) * Rts[i].row(a)
            row(a) == [k \in 1..4 |-> brs[i][a] * poses[i][3][k]
                                        - brs[i][3] * poses[i][a][k]]
        IN  IF r % 2 = 1 THEN row(1) ELSE row(2)]

IndependentTriples(A) ==
    {t \in (DOMAIN A) \X (DOMAIN A) \X (DOMAIN A) :
        t[1] < t[2] /\ t[2] < t[3] /\ Cross4(A[t[1]], A[t[2]], A[t[3]]) # Zero4}

\* The system has rank 3: its null space is one line, and the right singular
\* vector of the smallest singular value (0) spans it.
DLTExact(brs, poses) ==
    LET A == DLTSystem(brs, poses)
    IN  \E t \in IndependentTriples(A) :
            \A r \in DOMAIN A : Dot4(A[r], Cross4(A[t[1]], A[t[2]], A[t[3]])) = 0

\* The value of the solve that the model does not compute: the singular
\* vector of a system of rank 4 (the least-squares solution), or of rank
\* below 3 (some unit vector of the null space).
Unsolved == <<>>

\* mySVD.matrixV().col(3) up to rounding and up to its (positive or negative)
\* scale, which the caller's X /= X(3) removes.
TriangulateBearingsDLTSolve(brs, poses) ==
    LET A == DLTSystem(brs, poses)
        T == IndependentTriples(A)
    IN  IF ~DLTExact(brs, poses) THEN Unsolved
        ELSE LET t == CHOOSE t \in T : TRUE
             IN  Cross4(A[t[1]], A[t[2]], A[t[3]])

-----------------------------------------------------------------------------
(* TriangulateBearingsDLT.                                                 *)

\* X /= X(3); X.head<3>().  A zero X(3) divides by zero.
Dehomogenize(X) ==
    IF X[4] = 0 THEN NonFinite
    ELSE Finite(Scale3(Sign(X[4]), <<X[1], X[2], X[3]>>), Abs(X[4]))

\* Rts[i] * X after X /= X(3).
ProjectDLT(Rt, X) ==
    IF X[4] = 0 THEN NonFinite
    ELSE Finite(Scale3(Sign(X[4]), Mat34Vec(Rt, X)), Abs(X[4]))

WorldBearings(poses, brs) ==
    [i \in 1..Len(poses) |-> MatVec(Transpose(RotationOf(poses[i])), brs[i])]

\* What the call returns after a solve whose point the model does not
\* compute: the post-check decides on doubles the model does not have.
OpenResults ==
    { [ok |-> FALSE, point |-> Uninit, solved |-> TRUE],
      [ok |-> TRUE, point |-> Inexact, solved |-> TRUE],
      [ok |-> TRUE, point |-> NonFinite, solved |-> TRUE] }

\* The results the call can return.  The solve is an SVD: its X is the exact
\* null vector up to rounding, so a test of the post-check that is on its
\* bound can go either way, and a fourth component that is zero comes out
\* as zero or as noise.
TriangulateBearingsDLT(poses, brs, thr, minAngle, minDepth) ==
    LET count == Len(poses)
        angle_ok == AngleOkOuter(WorldBearings(poses, brs), 1, count, minAngle)
        X == TriangulateBearingsDLTSolve(brs, poses)
        projected == [i \in 1..count |-> ProjectDLT(poses[i], X)]
    IN  (IF FALSE \in angle_ok
         THEN {[ok |-> FALSE, point |-> Uninit, solved |-> FALSE]}
         ELSE {})
        \cup
        (IF TRUE \notin angle_ok THEN {}
         ELSE IF X = Unsolved THEN OpenResults
         ELSE IF X[4] = 0 THEN OpenResults
         ELSE {IF ok THEN [ok |-> TRUE, point |-> Dehomogenize(X), solved |-> TRUE]
                     ELSE [ok |-> FALSE, point |-> Uninit, solved |-> TRUE] :
                 ok \in ReprojectionOk(projected, brs, [i \in 1..count |-> thr],
                                       minDepth, FALSE, 1, count)})

-----------------------------------------------------------------------------
(* TriangulateBearingsMidpointSolve (geometry/triangulation.h): the point  *)
(* minimising the sum of squared distances to the rays,                    *)
(*     (I + BBt Cinv) A / n - Cinv BBtA,   Cinv = (n I - BBt)^-1,          *)
(* computed over the common denominator n det(n I - BBt).                  *)

Identity3 == << <<1, 0, 0>>, <<0, 1, 0>>, <<0, 0, 1>> >>

MatAdd(M, N) == [r \in 1..3 |-> Add3(M[r], N[r])]

MatScale(k, M) == [r \in 1..3 |-> Scale3(k, M[r])]

MatMul(M, N) ==
    LET Nt == Transpose(N)
    IN  [r \in 1..3 |-> <<Dot(M[r], Nt[1]), Dot(M[r], Nt[2]), Dot(M[r], Nt[3])>>]

\* b * b^T
Outer(b) == [r \in 1..3 |-> Scale3(b[r], b)]

\* The adjugate: Adj3(M) * M = Det3(M) * I.
Adj3(M) ==
    << << M[2][2] * M[3][3] - M[2][3] * M[3][2],
          M[1][3] * M[3][2] - M[1][2] * M[3][3],
          M[1][2] * M[2][3] - M[1][3] * M[2][2] >>,
       << M[2][3] * M[3][1] - M[2][1] * M[3][3],
          M[1][1] * M[3][3] - M[1][3] * M[3][1],
          M[1][3] * M[2][1] - M[1][1] * M[2][3] >>,
       << M[2][1] * M[3][2] - M[2][2] * M[3][1],
          M[1][2] * M[3][1] - M[1][1] * M[3][2],
          M[1][1] * M[2][2] - M[1][2] * M[2][1] >> >>

RECURSIVE SumMat(_, _)
SumMat(ms, i) == IF i = 0 THEN MatScale(0, Identity3) ELSE MatAdd(SumMat(ms, i - 1), ms[i])

RECURSIVE SumVec(_, _)
SumVec(vs, i) == IF i = 0 THEN Zero3 ELSE Add3(SumVec(vs, i - 1), vs[i])

TriangulateBearingsMidpointSolve(cs, brs) ==
    LET n == Len(brs)
        BBt == SumMat([i \in 1..n |-> Outer(brs[i])], n)
        BBtA == SumVec([i \in 1..n |-> MatVec(Outer(brs[i]), cs[i])], n)
        A == SumVec(cs, n)
        C == MatAdd(MatScale(n, Identity3), MatScale(-1, BBt))
        det == Det3(C)
        adj == Adj3(C)
        num == Sub3(MatVec(MatAdd(MatScale(det, Identity3), MatMul(BBt, adj)), A),
                    Scale3(n, MatVec(adj, BBtA)))
        den == n * det
    IN  IF den = 0 THEN NonFinite
        ELSE Finite(Scale3(Sign(den), num), Abs(den))

-----------------------------------------------------------------------------
(* TriangulateBearingsMidpoint.                                            *)

\* X - centers.row(i)
ProjectMidpoint(X, c) ==
    IF X.den = 0 THEN NonFinite
    ELSE Finite(Sub3(X.num, Scale3(X.den, c)), X.den)

\* The results the call can return.  The doubles of X are exact when its
\* coordinates are integers; otherwise a test of the post-check that is on
\* its bound can go either way.
TriangulateBearingsMidpoint(cs, brs, thresholds, minAngle, minDepth) ==
    LET count == Len(cs)
        angle_ok == AngleOkOuter(brs, 1, count, minAngle)
        X == TriangulateBearingsMidpointSolve(cs, brs)
        projected == [i \in 1..count |-> ProjectMidpoint(X, cs[i])]
    IN  (IF FALSE \in angle_ok
         THEN {[ok |-> FALSE, point |-> Uninit, solved |-> FALSE]}
         ELSE {})
        \cup
        (IF TRUE \notin angle_ok THEN {}
         ELSE {IF ok THEN [ok |-> TRUE, point |-> X, solved |-> TRUE]
                     ELSE [ok |-> FALSE, point |-> Uninit, solved |-> TRUE] :
                 ok \in ReprojectionOk(projected, brs, thresholds, minDepth,
                                       X.den = 1, 1, count)})

-----------------------------------------------------------------------------
(* The inputs of the triangulation calls: views on the integer grid.  All   *)
(* bearings but Diag are unit vectors along an axis; Diag makes angles of   *)
(* pi/4 and 3 pi/4 with them.  Thresholds and minimal angles are multiples  *)
(* of M_PI / 6.                                                             *)

AxisX == <<1, 0, 0>>
AxisY == <<0, 1, 0>>
AxisZ == <<0, 0, 1>>
Diag == <<-1, 1, 0>>
DiagCam == <<-1, 0, 1>>

Thresholds == {AnglePi6, AnglePi2}

MinAngles == {Angle0, AnglePi6, AnglePi3}

MinDepths == {-2, 0, 1}

\* <<center, bearing, threshold>> of a view of TriangulateBearingsMidpoint.
MidViews ==
    { <<Zero3, AxisX, AnglePi2>>,
      <<Zero3, Scale3(-1, AxisX), AnglePi2>>,
      <<Zero3, Scale3(-1, AxisX), AnglePi6>>,
      <<Zero3, Diag, AnglePi6>>,
      <<(<<1, 1, 0>>), Scale3(-1, AxisY), AnglePi2>>,
      <<(<<1, 1, 0>>), AxisZ, AnglePi6>>,
      <<(<<1, 1, 0>>), AxisZ, AnglePi2>>,
      <<(<<1, 1, 0>>), AxisX, AnglePi2>> }

\* World-to-camera rotations: the camera looks along world z, or along world x.
LookZ == Identity3
LookX == << <<0, 0, -1>>, <<0, 1, 0>>, <<1, 0, 0>> >>

\* <<Rt, bearing>> of a view of TriangulateBearingsDLT.
DLTViews ==
    { <<PoseMatrix(LookZ, Zero3), AxisZ>>,
      <<PoseMatrix(LookZ, Zero3), AxisX>>,
      <<PoseMatrix(LookZ, Zero3), DiagCam>>,
      <<PoseMatrix(LookX, <<-1, 0, 1>>), AxisZ>>,
      <<PoseMatrix(LookX, <<-1, 0, 1>>), Scale3(-1, AxisZ)>>,
      <<PoseMatrix(LookZ, <<-1, 0, 1>>), AxisZ>> }

NoResult == [ok |-> FALSE, point |-> Uninit, solved |-> FALSE]

NoAccess == [fault |-> <<>>, assertion |-> "not reached", outcome |-> "none"]

\* The parts of the state a behaviour of another component leaves alone.
TriIdle ==
    /\ fn = "none"
    /\ Rts = <<>>
    /\ centers = <<>>
    /\ bearings = <<>>
    /\ threshold = NaN
    /\ threshold_list = <<>>
    /\ min_angle = NaN
    /\ min_depth = 0
    /\ triPc = "idle"
    /\ result = NoResult
    /\ szPc = "idle"
    /\ access = NoAccess

ManyIdle ==
    /\ bearings1 = <<>>
    /\ bearings2 = <<>>
    /\ rotation = <<>>
    /\ translation = Zero3
    /\ manyPc = "idle"
    /\ triangulated = <<>>

RefineIdle ==
    /\ point = Zero3
    /\ iterations = 0
    /\ refined = Zero3
    /\ max_num_iterations = 0
    /\ summary = [iterations |-> 0, status |-> "none"]
    /\ solver_steps = 0
    /\ refPc = "idle"
    /\ refined_point = Zero3

NoCall == [op |-> "none", shapes |-> <<>>, outcome |-> "none",
           before |-> <<>>, after |-> <<>>]

BindIdle ==
    /\ wrapper = "none"
    /\ views = <<>>
    /\ gil = 0
    /\ pc = <<>>
    /\ op = <<>>
    /\ last = NoCall
    /\ settings = <<>>

TestIdle ==
    /\ tests_done = {}
    /\ test = [name |-> "none", fixture |-> "none", size |-> 0]
    /\ testPc = "off"
    /\ autodiff_args = <<>>
    /\ params = <<>>
    /\ jacobians = <<>>

TriInitDLT ==
    /\ fn = "DLT"
    /\ \E n \in 0..MaxViews : \E vw \in [1..n -> DLTViews] :
        /\ Rts = [i \in 1..n |-> vw[i][1]]
        /\ bearings = [i \in 1..n |-> vw[i][2]]
    /\ centers = <<>>
    /\ threshold \in Thresholds
    /\ threshold_list = <<>>
    /\ min_angle \in MinAngles
    /\ min_depth \in MinDepths
    /\ triPc = "ready"
    /\ result = NoResult
    /\ szPc = "idle"
    /\ access = NoAccess
    /\ ManyIdle /\ RefineIdle /\ BindIdle /\ TestIdle

TriInitMidpoint ==
    /\ fn = "Midpoint"
    /\ \E n \in 0..MaxViews : \E vw \in [1..n -> MidViews] :
        /\ centers = [i \in 1..n |-> vw[i][1]]
        /\ bearings = [i \in 1..n |-> vw[i][2]]
        /\ threshold_list = [i \in 1..n |-> vw[i][3]]
    /\ Rts = <<>>
    /\ threshold = NaN
    /\ min_angle \in MinAngles
    /\ min_depth \in MinDepths
    /\ triPc = "ready"
    /\ result = NoResult
    /\ szPc = "idle"
    /\ access = NoAccess
    /\ ManyIdle /\ RefineIdle /\ BindIdle /\ TestIdle

TriInit == TriInitMidpoint \/ TriInitDLT

CallDLT ==
    /\ fn = "DLT"
    /\ triPc = "ready"
    /\ result' \in TriangulateBearingsDLT(Rts, bearings, threshold, min_angle,
                                          min_depth)
    /\ triPc' = "returned"
    /\ UNCHANGED <<fn, Rts, centers, bearings, threshold, threshold_list,
                   min_angle, min_depth, szPc, access>>
    /\ UNCHANGED <<manyVars, refVars, bindVars, testVars>>

CallMidpoint ==
    /\ fn = "Midpoint"
    /\ triPc = "ready"
    /\ result' \in TriangulateBearingsMidpoint(centers, bearings, threshold_list,
                                               min_angle, min_depth)
    /\ triPc' = "returned"
    /\ UNCHANGED <<fn, Rts, centers, bearings, threshold, threshold_list,
                   min_angle, min_depth, szPc, access>>
    /\ UNCHANGED <<manyVars, refVars, bindVars, testVars>>

TriNext == CallMidpoint \/ CallDLT

SpecTri == TriInit /\ [][TriNext]_vars

-----------------------------------------------------------------------------
(* Properties of the triangulation calls.  The definitions below describe  *)
(* a call geometrically, from its inputs, without the code's loops.        *)

ViewCount == IF fn = "DLT" THEN Len(Rts) ELSE Len(centers)

\* The rays whose parallax the call tests.
Rays == IF fn = "DLT" THEN WorldBearings(Rts, bearings) ELSE bearings

\* The angle between u and v, as the doubles give it, lies in
\* [a, M_PI - a].
InterRayAngleInRange(u, v, a) ==
    \E x \in AngleBetweenVectors(u, v) : AngleGE(x, a) /\ AngleLE(x, PiMinus(a))

QualifyingPairs ==
    {p \in (1..ViewCount) \X (1..ViewCount) :
        p[2] < p[1] /\ InterRayAngleInRange(Rays[p[1]], Rays[p[2]], min_angle)}

\* The rays the point of the linear solve can have from each view.  Where
\* the model does not compute the point, or the exact null vector has a
\* fourth component of zero, the solve returns that component as zero or as
\* rounding noise: the ray is not finite, or some finite ray (Inexact).
Projected ==
    IF fn = "DLT"
    THEN LET X == TriangulateBearingsDLTSolve(bearings, Rts)
         IN  [i \in 1..ViewCount |->
                IF X = Unsolved \/ X[4] = 0 THEN {Inexact, NonFinite}
                ELSE {ProjectDLT(Rts[i], X)}]
    ELSE LET X == TriangulateBearingsMidpointSolve(centers, bearings)
         IN  [i \in 1..ViewCount |-> {ProjectMidpoint(X, centers[i])}]

ThresholdOf(i) == IF fn = "DLT" THEN threshold ELSE threshold_list[i]

\* The angle between the reprojected ray of view i and its bearing is at most
\* the view's threshold (cos >= cos threshold); nothing is asked of a view
\* from which the point can have no direction, or a direction the model does
\* not compute.
GeometricAngleWithin(i) ==
    \E p \in Projected[i] :
        LET uv == Dot(p.num, bearings[i])
            nn == Dot(p.num, p.num) * Dot(bearings[i], bearings[i])
            t == ThresholdOf(i)
        IN  p.den <= 0 \/ nn = 0 \/ Compare(<<uv, nn, 0>>, <<t[1], t[2], 0>>) <= 0

\* C3: the linear solve is attempted exactly when some pair of views (i, j),
\* j < i, has an inter-ray angle in [min_angle, pi - min_angle]; without such
\* a pair (fewer than two views included) the call returns the failure flag.
ParallaxGate ==
    triPc = "returned" =>
        /\ result.solved <=> (QualifyingPairs # {})
        /\ (QualifyingPairs = {}) => ~result.ok

\* Three views of which exactly one pair qualifies, and the solve was made.
ParallaxGateWitness ==
    /\ triPc = "returned"
    /\ ViewCount = 3
    /\ Cardinality(QualifyingPairs) = 1
    /\ result.solved

\* C4: whatever threshold, min_angle and min_depth, a call whose solve
\* produced a point returns failure when for some view the dot product between
\* the reprojected ray and the bearing is not positive (said of the views
\* whose ray the model computes).
NonPositiveDepthFails ==
    (/\ triPc = "returned"
     /\ result.solved
     /\ \E i \in 1..ViewCount :
            \A p \in Projected[i] : p.den > 0 /\ Dot(p.num, bearings[i]) <= 0)
        => ~result.ok

\* C5: after a successful call the angle between every view's reprojected ray
\* and its bearing is at most that view's threshold, rays opposite to their
\* bearing included.
SuccessWithinThresholds ==
    (triPc = "returned" /\ result.ok) =>
        \A i \in 1..ViewCount : GeometricAngleWithin(i)

\* C10: a successful TriangulateBearingsDLT returns a point with three finite
\* coordinates, also when the homogeneous solution has fourth component zero
\* (said of the calls whose system has an exact solution).
DLTSuccessIsFinite ==
    (/\ fn = "DLT"
     /\ triPc = "returned"
     /\ result.ok
     /\ DLTExact(bearings, Rts)) => IsFinite(result.point)

-----------------------------------------------------------------------------
(* TriangulateTwoBearingsMidpointMany.  The two-ray solve it calls is      *)
(* declared in triangulation.h; it is modelled by its closed form: the     *)
(* midpoint of the closest points of the two rays, failure when the rays   *)
(* are parallel (the 2x2 system is singular).                              *)

MaxRows == 3

TriangulateTwoBearingsMidpointSolve(os, bs) ==
    LET t == Sub3(os[2], os[1])
        b0 == Dot(t, bs[1])
        b1 == Dot(t, bs[2])
        A00 == Dot(bs[1], bs[1])
        A10 == Dot(bs[1], bs[2])
        A01 == -A10
        A11 == -Dot(bs[2], bs[2])
        det == A00 * A11 - A01 * A10
        \* det * lambdas = adj(A) * b
        l0 == A11 * b0 - A01 * b1
        l1 == A00 * b1 - A10 * b0
        num == Add3(Scale3(det, Add3(os[1], os[2])),
                    Add3(Scale3(l0, bs[1]), Scale3(l1, bs[2])))
        den == 2 * det
    IN  IF det = 0
        THEN [ok |-> FALSE, point |-> Uninit]
        ELSE [ok |-> TRUE, point |-> Finite(Scale3(Sign(den), num), Abs(den))]

\* The ray buffer after the two row assignments of one loop iteration, but
\* with the second ray left as the previous iteration wrote it.
KeepSecondRay(bs, row1, row2, R) == [bs EXCEPT ![1] = row1]

\* bs.row(0) = bearings1.row(i); bs.row(1) = rotation * bearings2.row(i)^T
LoadRays(bs, row1, row2, R) == [bs EXCEPT ![1] = row1, ![2] = MatVec(R, row2)]

\* The loop over the rows, from row i on; os and bs are the two buffers
\* declared before the loop, out the presized result vector.
RECURSIVE ManyLoop(_, _, _, _, _, _, _)
ManyLoop(b1, b2, R, os, bs, i, out) ==
    IF i > Len(b1) THEN out
    ELSE LET rays == LoadRays(bs, b1[i], b2[i], R)
         IN  ManyLoop(b1, b2, R, os, rays, i + 1,
                      [out EXCEPT ![i] = TriangulateTwoBearingsMidpointSolve(os, rays)])

TriangulateTwoBearingsMidpointMany(b1, b2, R, t) ==
    LET out == [i \in 1..Len(b1) |-> [ok |-> FALSE, point |-> Uninit]]
        os == <<Zero3, t>>
        bs == <<Zero3, Zero3>>
    IN  ManyLoop(b1, b2, R, os, bs, 1, out)

ManyBearings == {AxisZ, AxisX, DiagCam}

ManyRotations == {LookZ, LookX}

ManyTranslations == {<<1, 0, 0>>, <<-1, 0, 1>>}

ManyInit ==
    /\ \E n \in 0..MaxRows :
        /\ bearings1 \in [1..n -> ManyBearings]
        /\ bearings2 \in [1..n -> ManyBearings]
    /\ rotation \in ManyRotations
    /\ translation \in ManyTranslations
    /\ manyPc = "ready"
    /\ triangulated = <<>>
    /\ TriIdle /\ RefineIdle /\ BindIdle /\ TestIdle

CallMany ==
    /\ manyPc = "ready"
    /\ triangulated' = TriangulateTwoBearingsMidpointMany(bearings1, bearings2,
                                                          rotation, translation)
    /\ manyPc' = "returned"
    /\ UNCHANGED <<bearings1, bearings2, rotation, translation>>
    /\ UNCHANGED <<triVars, refVars, bindVars, testVars>>

SpecMany == ManyInit /\ [][CallMany]_vars

\* Two results agree: the same flag and, on success, the same point (the
\* point of a failed solve is unspecified).
SameResult(r, q) == r.ok = q.ok /\ (r.ok => r.point = q.point)

\* The two-ray solve of row i alone.
RowSolve(b1, b2, i) ==
    TriangulateTwoBearingsMidpointSolve(<<Zero3, translation>>,
                                        <<b1[i], MatVec(rotation, b2[i])>>)

\* The rows i and j of a matrix exchanged.
SwapRows(m, i, j) == [m EXCEPT ![i] = m[j], ![j] = m[i]]

\* C9: the call returns one result per row of bearings1, in row order; result
\* i is the two-ray solve of row i alone, and exchanging two input rows
\* exchanges their results.
ManyRowsIndependent ==
    manyPc = "returned" =>
        /\ Len(triangulated) = Len(bearings1)
        /\ \A i \in 1..Len(bearings1) :
                SameResult(triangulated[i], RowSolve(bearings1, bearings2, i))
        /\ \A i, j \in 1..Len(bearings1) :
                LET swapped == TriangulateTwoBearingsMidpointMany(
                                   SwapRows(bearings1, i, j),
                                   SwapRows(bearings2, i, j),
                                   rotation, translation)
                IN  \A k \in 1..Len(bearings1) :
                        SameResult(swapped[k], SwapRows(triangulated, i, j)[k])

\* A failed row between two successful rows with different points.
ManyRowsWitness ==
    /\ manyPc = "returned"
    /\ Len(triangulated) = 3
    /\ triangulated[1].ok /\ ~triangulated[2].ok /\ triangulated[3].ok
    /\ triangulated[1].point # triangulated[3].point

-----------------------------------------------------------------------------
(* PointRefinement.  The least-squares solver is a library; its loop is    *)
(* modelled by what it promises: it runs loop bodies while its iteration   *)
(* counter is below options.max_num_iterations, each body moves the point  *)
(* or rejects the step, and it may stop on a convergence test.  The step   *)
(* it takes is left open.                                                  *)

MaxIterations == 3

\* The value stored in the option, but one more than the caller's count.
OneIterationMore(n) == n + 1

\* solver.options.max_num_iterations = iterations
SolverMaxIterations(n) == n

\* <<centers, bearings>> of the observations.
RefineObservations ==
    { << <<Zero3, <<1, 1, 0>> >>, <<AxisX, Scale3(-1, AxisY)>> >>,
      << <<Zero3, <<1, 1, 0>>, <<1, 1, 0>> >>, <<AxisX, Scale3(-1, AxisY), AxisZ>> >> }

RefinePoints == {Zero3, <<1, 0, 0>>}

\* The moves of one loop body: a rejected step leaves the point in place.
SolverSteps == {Zero3, AxisX, AxisY}

ConvergenceTests == {"GRADIENT_TOO_SMALL", "RELATIVE_STEP_SIZE_TOO_SMALL",
                     "COST_TOO_SMALL"}

RefineInit ==
    /\ fn = "PointRefinement"
    /\ \E obs \in RefineObservations : centers = obs[1] /\ bearings = obs[2]
    /\ point \in RefinePoints
    /\ iterations \in 0..MaxIterations
    /\ refined = Zero3
    /\ max_num_iterations = 0
    /\ summary = [iterations |-> 0, status |-> "none"]
    /\ solver_steps = 0
    /\ refPc = "ready"
    /\ refined_point = Zero3
    /\ Rts = <<>>
    /\ threshold = NaN
    /\ threshold_list = <<>>
    /\ min_angle = NaN
    /\ min_depth = 0
    /\ triPc = "idle"
    /\ result = NoResult
    /\ szPc = "idle"
    /\ access = NoAccess
    /\ ManyIdle /\ BindIdle /\ TestIdle

RefineFrame ==
    /\ UNCHANGED <<triVars, point, iterations>>
    /\ UNCHANGED <<manyVars, bindVars, testVars>>

\* Vec3d refined = point; the option is set and Solve is entered.
RefineBegin ==
    /\ refPc = "ready"
    /\ refined' = point
    /\ max_num_iterations' = SolverMaxIterations(iterations)
    /\ summary' = [iterations |-> 0, status |-> "HIT_MAX_ITERATIONS"]
    /\ solver_steps' = 0
    /\ refPc' = "solving"
    /\ UNCHANGED refined_point
    /\ RefineFrame

\* The tests on the initial cost and gradient, before the loop.
SolverConvergedAtStart ==
    /\ refPc = "solving"
    /\ solver_steps = 0
    /\ \E st \in {"GRADIENT_TOO_SMALL", "COST_TOO_SMALL"} :
            summary' = [summary EXCEPT !.status = st]
    /\ refPc' = "solved"
    /\ UNCHANGED <<refined, max_num_iterations, solver_steps, refined_point>>
    /\ RefineFrame

\* One loop body that ends with the increment of the counter.
SolverIterate ==
    /\ refPc = "solving"
    /\ summary.iterations < max_num_iterations
    /\ \E d \in SolverSteps : refined' = Add3(refined, d)
    /\ solver_steps' = solver_steps + 1
    /\ summary' = [summary EXCEPT !.iterations = @ + 1]
    /\ UNCHANGED <<max_num_iterations, refPc, refined_point>>
    /\ RefineFrame

\* One loop body that leaves the loop on a convergence test.
SolverConverge ==
    /\ refPc = "solving"
    /\ summary.iterations < max_num_iterations
    /\ \E d \in SolverSteps : refined' = Add3(refined, d)
    /\ solver_steps' = solver_steps + 1
    /\ \E st \in ConvergenceTests : summary' = [summary EXCEPT !.status = st]
    /\ refPc' = "solved"
    /\ UNCHANGED <<max_num_iterations, refined_point>>
    /\ RefineFrame

\* The loop condition fails.
SolverHitMax ==
    /\ refPc = "solving"
    /\ ~(summary.iterations < max_num_iterations)
    /\ refPc' = "solved"
    /\ UNCHANGED <<refined, max_num_iterations, summary, solver_steps,
                   refined_point>>
    /\ RefineFrame

\* return refined;
RefineReturn ==
    /\ refPc = "solved"
    /\ refined_point' = refined
    /\ refPc' = "returned"
    /\ UNCHANGED <<refined, max_num_iterations, summary, solver_steps>>
    /\ RefineFrame

RefineNext ==
    \/ RefineBegin
    \/ SolverConvergedAtStart
    \/ SolverIterate
    \/ SolverConverge
    \/ SolverHitMax
    \/ RefineReturn

SpecRefine == RefineInit /\ [][RefineNext]_vars

\* C8: the solver never runs more loop bodies than the caller's iteration
\* count, the call returns the point the solver worked on, and no step of
\* the call changes the caller's point, centers or bearings.
RefinementHardStop ==
    /\ [](refPc # "idle" =>
            /\ solver_steps <= iterations
            /\ (refPc = "returned" => refined_point = refined))
    /\ [][point' = point /\ centers' = centers /\ bearings' = bearings]_vars

\* A call the iteration count stopped: the solver used every iteration it
\* was given without converging, and returned a point other than the input.
RefinementHardStopWitness ==
    /\ refPc = "returned"
    /\ iterations >= 2
    /\ solver_steps = iterations
    /\ summary.status = "HIT_MAX_ITERATIONS"
    /\ refined_point # point

-----------------------------------------------------------------------------
(* depthmap_bind.h: one wrapper object, called from host-runtime threads.  *)
(* A thread runs host-runtime code, and enters a wrapper method, only      *)
(* while it holds the host-runtime lock (gil).  A raster argument is its   *)
(* shape <<rows, columns>>.                                                *)

NumThreads == 2

MaxStored == 2

Threads == 1..NumThreads

Shapes == {<<1, 1>>, <<2, 1>>, <<1, 2>>}

\* <<depth, plane, color, label>>: all of one shape, or one of plane, color
\* and label of another shape than depth.
PrunerArguments ==
    {a \in [1..4 -> Shapes] :
        Cardinality({k \in 2..4 : a[k] # a[1]}) <= 1}

\* The configuration methods of each wrapper.
Setters ==
    [Estimator |-> {"SetDepthRange", "SetPatchMatchIterations", "SetPatchSize",
                    "SetMinPatchSD"},
     Cleaner |-> {"SetSameDepthThreshold", "SetMinConsistentViews"},
     Pruner |-> {"SetSameDepthThreshold"}]

SettingValues == {1}

LongOperations ==
    [Estimator |-> {"ComputePatchMatch", "ComputePatchMatchSample",
                    "ComputeBruteForce"},
     Cleaner |-> {"Clean"},
     Pruner |-> {"Prune"}]

\* The test of the estimator's AddView: rows and columns of image and mask.
EstimatorShapesMatch(image, mask) ==
    ~((image[1] # mask[1]) \/ (image[2] # mask[2]))

\* The pruner's tests, but with only the plane compared with the depth.
PrunerPlaneOnly(depth, plane, color, label) ==
    ~((depth[1] # plane[1]) \/ (depth[2] # plane[2]))

\* The three tests of the pruner's AddView.
PrunerShapesMatch(depth, plane, color, label) ==
    /\ ~((depth[1] # plane[1]) \/ (depth[2] # plane[2]))
    /\ ~((depth[1] # color[1]) \/ (depth[2] # color[2]))
    /\ ~((depth[1] # label[1]) \/ (depth[2] # label[2]))

\* The view the native AddView stores: width = shape(1), height = shape(0).
NativeView(raster) == [width |-> raster[2], height |-> raster[1]]

\* The lock during the native computation, had the method not released it.
LockKept(t) == t

\* py::gil_scoped_release release;
LockReleased(t) == 0

BindInit ==
    /\ wrapper \in {"Estimator", "Cleaner", "Pruner"}
    /\ views = <<>>
    /\ gil = 0
    /\ pc = [t \in Threads |-> "waiting"]
    /\ op = [t \in Threads |-> "none"]
    /\ last = NoCall
    /\ settings = [s \in Setters[wrapper] |-> "default"]
    /\ TriIdle /\ ManyIdle /\ RefineIdle /\ TestIdle

BindFrame == UNCHANGED <<wrapper, triVars, manyVars, refVars, testVars>>

\* The host runtime gives the lock to a waiting thread.
AcquireLock(t) ==
    /\ pc[t] = "waiting"
    /\ gil = 0
    /\ gil' = t
    /\ pc' = [pc EXCEPT ![t] = "python"]
    /\ UNCHANGED <<views, op, last, settings>>
    /\ BindFrame

\* The host runtime switches threads between two calls.
YieldLock(t) ==
    /\ pc[t] = "python"
    /\ gil = t
    /\ gil' = 0
    /\ pc' = [pc EXCEPT ![t] = "waiting"]
    /\ UNCHANGED <<views, op, last, settings>>
    /\ BindFrame

\* The outcome of an AddView call on arguments of the given shapes: the
\* exception, or the native AddView and a normal return.
AddViewOutcome(name, shapes, accepted) ==
    IF ~accepted
    THEN /\ views' = views
         /\ last' = [op |-> name, shapes |-> shapes,
                     outcome |-> "invalid_argument",
                     before |-> views, after |-> views]
    ELSE /\ views' = Append(views, NativeView(shapes[1]))
         /\ last' = [op |-> name, shapes |-> shapes, outcome |-> "returned",
                     before |-> views,
                     after |-> Append(views, NativeView(shapes[1]))]

EstimatorAddView(t, image, mask) ==
    /\ wrapper = "Estimator"
    /\ pc[t] = "python"
    /\ EstimatorShapesMatch(image, mask) => Len(views) < MaxStored
    /\ AddViewOutcome("Estimator.AddView", <<image, mask>>,
                      EstimatorShapesMatch(image, mask))
    /\ UNCHANGED <<gil, pc, op, settings>>
    /\ BindFrame

CleanerAddView(t, depth) ==
    /\ wrapper = "Cleaner"
    /\ pc[t] = "python"
    /\ Len(views) < MaxStored
    /\ AddViewOutcome("Cleaner.AddView", <<depth>>, TRUE)
    /\ UNCHANGED <<gil, pc, op, settings>>
    /\ BindFrame

PrunerAddView(t, depth, plane, color, label) ==
    /\ wrapper = "Pruner"
    /\ pc[t] = "python"
    /\ PrunerShapesMatch(depth, plane, color, label) => Len(views) < MaxStored
    /\ AddViewOutcome("Pruner.AddView", <<depth, plane, color, label>>,
                      PrunerShapesMatch(depth, plane, color, label))
    /\ UNCHANGED <<gil, pc, op, settings>>
    /\ BindFrame

\* SetDepthRange, SetPatchMatchIterations, SetPatchSize, SetMinPatchSD,
\* SetSameDepthThreshold, SetMinConsistentViews: the native setter, called
\* with the lock held like every bound method.
SetSetting(t, s, v) ==
    /\ pc[t] = "python"
    /\ s \in Setters[wrapper]
    /\ settings' = [settings EXCEPT ![s] = v]
    /\ UNCHANGED <<views, gil, pc, op, last>>
    /\ BindFrame

\* A long-running method up to the start of the native computation.
BeginCompute(t, o) ==
    /\ pc[t] = "python"
    /\ o \in LongOperations[wrapper]
    /\ gil' = LockReleased(t)
    /\ pc' = [pc EXCEPT ![t] = "native"]
    /\ op' = [op EXCEPT ![t] = o]
    /\ UNCHANGED <<views, last, settings>>
    /\ BindFrame

\* The native computation is over; the end of the scope takes the lock
\* again, once it is free.
EndCompute(t) ==
    /\ pc[t] = "native"
    /\ gil = 0
    /\ gil' = t
    /\ pc' = [pc EXCEPT ![t] = "build"]
    /\ UNCHANGED <<views, op, last, settings>>
    /\ BindFrame

\* The return object is built and the method returns.
BuildReturn(t) ==
    /\ pc[t] = "build"
    /\ pc' = [pc EXCEPT ![t] = "python"]
    /\ op' = [op EXCEPT ![t] = "none"]
    /\ UNCHANGED <<views, gil, last, settings>>
    /\ BindFrame

BindNext ==
    \E t \in Threads :
        \/ AcquireLock(t)
        \/ YieldLock(t)
        \/ \E image, mask \in Shapes : EstimatorAddView(t, image, mask)
        \/ \E depth \in Shapes : CleanerAddView(t, depth)
        \/ \E a \in PrunerArguments : PrunerAddView(t, a[1], a[2], a[3], a[4])
        \/ \E s \in Setters[wrapper], v \in SettingValues : SetSetting(t, s, v)
        \/ \E o \in LongOperations[wrapper] : BeginCompute(t, o)
        \/ EndCompute(t)
        \/ BuildReturn(t)

SpecBind == BindInit /\ [][BindNext]_vars

\* Some raster of the call has other rows or columns than the first.
ShapesDiffer(shapes) == \E k \in 2..Len(shapes) : shapes[k] # shapes[1]

\* C6: an AddView of the estimator or pruner wrapper whose rasters differ in
\* rows or columns signals invalid_argument and leaves the native object's
\* views as they were; with equal shapes it returns and the native object
\* has exactly one view more, the one of the call.
ShapeCheckedAddView ==
    /\ views = last.after
    /\ last.op \in {"Estimator.AddView", "Pruner.AddView"} =>
        IF ShapesDiffer(last.shapes)
        THEN last.outcome = "invalid_argument" /\ last.after = last.before
        ELSE /\ last.outcome = "returned"
             /\ last.after = Append(last.before, NativeView(last.shapes[1]))

\* The pruner rejected a call whose label alone has another shape, after it
\* had accepted a view; the accepted view is still the only one.
ShapeCheckedAddViewWitness ==
    /\ last.op = "Pruner.AddView"
    /\ last.shapes[2] = last.shapes[1]
    /\ last.shapes[3] = last.shapes[1]
    /\ last.shapes[4] # last.shapes[1]
    /\ last.outcome = "invalid_argument"
    /\ Len(views) = 1

\* C7: a thread in the native computation of a long-running method does not
\* hold the host-runtime lock; it holds it while the return object is built,
\* and still holds it when the method returns.
LockReleasedWhileNative ==
    /\ [](\A t \in Threads :
            /\ pc[t] = "native" => gil # t
            /\ pc[t] = "build" => gil = t)
    /\ [][\A t \in Threads :
            (pc[t] = "build" /\ pc'[t] = "python") => gil' = t]_vars

\* One thread is in a native computation while another holds the lock and
\* runs host-runtime code.
LockReleasedWhileNativeWitness ==
    \E t, u \in Threads :
        /\ pc[t] = "native"
        /\ op[t] = "ComputePatchMatch"
        /\ pc[u] = "python"
        /\ gil = u


\* Threads inside the native computation of a long-running method.
InNative == {t \in Threads : pc[t] = "native"}

\* C12: accesses to one wrapper's native object are mutually exclusive:
\* at most one thread is inside a native computation, and while a thread is
\* inside one no step of another thread (AddView, a Set* method) changes the
\* views or the settings of the wrapper.
NativeAccessExclusive ==
    /\ [](Cardinality(InNative) <= 1)
    /\ [][InNative # {} => views' = views /\ settings' = settings]_vars

-----------------------------------------------------------------------------
(* reprojection_errors_test.cc: the tests of the analytic Jacobians.  An   *)
(* array or buffer is modelled by its name; what matters is which array    *)
(* each call receives in which slot.                                       *)

size_point == 3

size_rt == 6

\* The tests: the fixture each uses and the number of camera parameters.
Tests ==
    { [name |-> "BrownAnalyticErrorEvaluatesOK", fixture |-> "2D", size |-> 9],
      [name |-> "PerspectiveAnalyticErrorEvaluatesOK", fixture |-> "2D", size |-> 3],
      [name |-> "FisheyeAnalyticErrorEvaluatesOK", fixture |-> "2D", size |-> 3],
      [name |-> "FisheyeOpencvAnalyticErrorEvaluatesOK", fixture |-> "2D", size |-> 8],
      [name |-> "Fisheye62AnalyticErrorEvaluatesOK", fixture |-> "2D", size |-> 12],
      [name |-> "Fisheye624AnalyticErrorEvaluatesOK", fixture |-> "2D", size |-> 16],
      [name |-> "DualAnalyticErrorEvaluatesOK", fixture |-> "2D", size |-> 4],
      [name |-> "AnalyticErrorEvaluatesOK", fixture |-> "3D", size |-> 0] }

NoTest == [name |-> "none", fixture |-> "none", size |-> 0]

\* SetupADiff: the first derivative index seeded for each parameter array.
DerivativeOffset(array) ==
    CASE array = "point" -> 0
      [] array = "rt_instance" -> size_point
      [] array = "rt_camera" -> size_point + size_rt
      [] array = "camera" -> size_point + size_rt + size_rt
      [] OTHER -> -1

\* CheckJacobians: the first derivative index each buffer is compared with.
CheckedOffset(buffer) ==
    CASE buffer = "jac_point" -> 0
      [] buffer \in {"jac_rt_instance", "jac_instance_rt"} -> size_point
      [] buffer \in {"jac_rt_camera", "jac_camera_rt"} -> size_point + size_rt
      [] buffer = "jac_camera" -> size_point + size_rt + size_rt
      [] OTHER -> -1

\* The arguments of the generic functor, in call order.
AutodiffArguments(fixture) ==
    IF fixture = "2D"
    THEN <<"camera", "rt_instance", "rt_camera", "point">>
    ELSE <<"dummy", "rt_instance", "rt_camera", "point">>

\* const double* params[] = {...}
EvaluateParams(fixture) ==
    IF fixture = "2D"
    THEN <<"camera", "rt_camera", "rt_instance", "point">>
    ELSE <<"dummy", "rt_instance", "rt_camera", "point">>

\* double* jacobians[] = {...}
EvaluateJacobians(fixture) ==
    IF fixture = "2D"
    THEN <<"jac_camera", "jac_rt_instance", "jac_rt_camera", "jac_point">>
    ELSE <<"dummy_jac", "jac_instance_rt", "jac_camera_rt", "jac_point">>

TestInit ==
    /\ tests_done = {}
    /\ test = NoTest
    /\ testPc = "idle"
    /\ autodiff_args = <<>>
    /\ params = <<>>
    /\ jacobians = <<>>
    /\ TriIdle /\ ManyIdle /\ RefineIdle /\ BindIdle

TestFrame == UNCHANGED <<triVars, manyVars, refVars, bindVars>>

\* The test framework starts a test that has not run; the fixture is built
\* and SetupADiff seeds the derivatives.
StartTest(tc) ==
    /\ testPc = "idle"
    /\ tc \notin tests_done
    /\ test' = tc
    /\ testPc' = "setup"
    /\ UNCHANGED <<tests_done, autodiff_args, params, jacobians>>
    /\ TestFrame

\* autodiff(camera_adiff, rt_instance_adiff, rt_camera_adiff, point_adiff, ...)
CallAutodiff ==
    /\ testPc = "setup"
    /\ autodiff_args' = AutodiffArguments(test.fixture)
    /\ testPc' = "autodiff"
    /\ UNCHANGED <<tests_done, test, params, jacobians>>
    /\ TestFrame

\* analytic.Evaluate(params, residuals, &jacobians[0])
CallEvaluate ==
    /\ testPc = "autodiff"
    /\ params' = EvaluateParams(test.fixture)
    /\ jacobians' = EvaluateJacobians(test.fixture)
    /\ testPc' = "evaluated"
    /\ UNCHANGED <<tests_done, test, autodiff_args>>
    /\ TestFrame

\* CheckJacobians, and the end of the test.
FinishTest ==
    /\ testPc = "evaluated"
    /\ tests_done' = tests_done \cup {test}
    /\ test' = NoTest
    /\ testPc' = "idle"
    /\ autodiff_args' = <<>>
    /\ params' = <<>>
    /\ jacobians' = <<>>
    /\ TestFrame

TestNext ==
    \/ \E tc \in Tests : StartTest(tc)
    \/ CallAutodiff
    \/ CallEvaluate
    \/ FinishTest

SpecTest == TestInit /\ [][TestNext]_vars

\* The parameter group an array of the tests holds.
GroupOf(array) ==
    CASE array \in {"camera", "dummy"} -> "camera_intrinsics"
      [] array = "rt_camera" -> "camera_in_rig_pose"
      [] array = "rt_instance" -> "instance_pose"
      [] array = "point" -> "point"

GroupOrder == <<"camera_intrinsics", "camera_in_rig_pose", "instance_pose", "point">>

\* The buffer is the Jacobian block of the array: the test compares it with
\* the derivatives seeded for that array (the 3D call's slot 0 is unused).
BlockFor(buffer, array) ==
    \/ buffer = "dummy_jac" /\ array = "dummy"
    \/ CheckedOffset(buffer) >= 0 /\ CheckedOffset(buffer) = DerivativeOffset(array)

\* C2: every Evaluate call of the tests receives its parameter arrays in the
\* order camera intrinsics, camera-in-rig pose, instance pose, point, and at
\* every slot the Jacobian buffer of the parameter array of that slot.
ParameterLayout ==
    testPc = "evaluated" =>
        /\ [k \in 1..4 |-> GroupOf(params[k])] = GroupOrder
        /\ \A k \in 1..4 : BlockFor(jacobians[k], params[k])

-----------------------------------------------------------------------------
(* The two triangulations called with containers of independent sizes.    *)
(* Neither function compares the sizes of its arguments: the loops run to  *)
(* Rts.size() (DLT) or centers.rows() (Midpoint) and the solves to         *)
(* bearings.rows().  A read past the end of an Eigen matrix stops a build  *)
(* with assertions and is undefined behaviour in a build without them; a   *)
(* read past the end of a std::vector is undefined behaviour in both.      *)

MaxSize == 3

Builds == {"assertions", "NDEBUG"}

NoFault == <<>>

\* <<container, zero-based index, size of the container>>
Fault(container, index, size) == <<container, index, size>>

Min(a, b) == IF a <= b THEN a ELSE b

\* What follows a read past the end of an Eigen matrix.
MatrixOverrun(build) == IF build = "assertions" THEN "aborted" ELSE "undefined"

\* The ends the parallax loops of TriangulateBearingsDLT can come to: the
\* flag, or the first bearings.row(i) past the end, read at the top of the
\* outer turn.  rays holds the rays of the rows that exist.
RECURSIVE ParallaxWalk(_, _, _, _)
ParallaxWalk(rays, i, count, minAngle) ==
    IF i > count THEN {[angle_ok |-> FALSE, fault |-> NoFault]}
    ELSE IF i > Len(rays)
         THEN {[angle_ok |-> FALSE, fault |-> Fault("bearings", i - 1, Len(rays))]}
    ELSE LET r == AngleOkInner(rays, i, 1, minAngle)
         IN  (IF TRUE \in r THEN {[angle_ok |-> TRUE, fault |-> NoFault]} ELSE {})
             \cup (IF FALSE \in r
                   THEN ParallaxWalk(rays, i + 1, count, minAngle)
                   ELSE {})

\* The ends the parallax loops of TriangulateBearingsMidpoint can come to.
\* bearings is read only inside the inner loop, as row(i) and row(j) of one
\* call's arguments: the turn i = 0 reads nothing, and the first turn with
\* row(i) past the end stops at j = 0, on row(i) or, with no row at all, on
\* row(j), whichever argument is evaluated first.
RECURSIVE MidpointParallaxWalk(_, _, _, _)
MidpointParallaxWalk(brs, i, count, minAngle) ==
    IF i > count THEN {[angle_ok |-> FALSE, fault |-> NoFault]}
    ELSE IF i = 1 THEN MidpointParallaxWalk(brs, i + 1, count, minAngle)
    ELSE IF i > Len(brs)
         THEN {[angle_ok |-> FALSE, fault |-> Fault("bearings", k, Len(brs))] :
                 k \in {i - 1} \cup (IF Len(brs) = 0 THEN {0} ELSE {})}
    ELSE LET r == AngleOkInner(brs, i, 1, minAngle)
         IN  (IF TRUE \in r THEN {[angle_ok |-> TRUE, fault |-> NoFault]} ELSE {})
             \cup (IF FALSE \in r
                   THEN MidpointParallaxWalk(brs, i + 1, count, minAngle)
                   ELSE {})

\* The ends the post-check loop can come to: the flag, or the first read
\* past the end of bearings (nb rows) or threshold_list (nt entries).
\* rejects[i] holds the values "view rejected" can take in turn i.
RECURSIVE ReprojectionWalk(_, _, _, _, _)
ReprojectionWalk(rejects, nb, nt, i, count) ==
    IF i > count THEN {[ok |-> TRUE, fault |-> NoFault]}
    ELSE IF i > nb THEN {[ok |-> FALSE, fault |-> Fault("bearings", i - 1, nb)]}
    ELSE IF i > nt THEN {[ok |-> FALSE, fault |-> Fault("threshold_list", i - 1, nt)]}
    ELSE (IF TRUE \in rejects[i] THEN {[ok |-> FALSE, fault |-> NoFault]} ELSE {})
         \cup (IF FALSE \in rejects[i]
               THEN ReprojectionWalk(rejects, nb, nt, i + 1, count)
               ELSE {})

SizedWorldBearings(poses, brs) ==
    [i \in 1..Min(Len(poses), Len(brs)) |->
        MatVec(Transpose(RotationOf(poses[i])), brs[i])]

\* What a call of TriangulateBearingsDLT can come to; after(walk) is what it
\* can come to once its parallax loops ended as walk says.
SizedDLT(poses, brs, thr, minAngle, minDepth, build) ==
    LET count == Len(poses)
        nviews == Len(brs)
        X == TriangulateBearingsDLTSolve(brs, poses)
        rejects == [i \in 1..Min(count, nviews) |->
                      IF X = Unsolved \/ X[4] = 0 THEN BOOLEAN
                      ELSE Rejects(ProjectDLT(poses[i], X), brs[i], thr,
                                   minDepth, FALSE)]
        after(walk) ==
            IF walk.fault # NoFault
            THEN {[fault |-> walk.fault, assertion |-> "not reached",
                   outcome |-> MatrixOverrun(build)]}
            ELSE IF ~walk.angle_ok
            THEN {[fault |-> NoFault, assertion |-> "not reached",
                   outcome |-> "failure"]}
            ELSE IF nviews # count /\ build = "assertions"
            THEN {[fault |-> NoFault, assertion |-> "fails", outcome |-> "aborted"]}
            ELSE IF nviews > count
            THEN {[fault |-> Fault("Rts", count, count), assertion |-> "skipped",
                   outcome |-> "undefined"]}
            ELSE {[fault |-> post.fault,
                   assertion |-> IF build = "assertions" THEN "holds" ELSE "skipped",
                   outcome |-> IF post.fault # NoFault THEN "undefined"
                               ELSE IF post.ok THEN "success" ELSE "failure"] :
                    post \in ReprojectionWalk(rejects, nviews, count, 1, count)}
    IN  UNION {after(walk) :
                 walk \in ParallaxWalk(SizedWorldBearings(poses, brs), 1, count,
                                       minAngle)}

\* What a call of TriangulateBearingsMidpoint can come to; after(walk) is
\* what it can come to once its parallax loops ended as walk says.
SizedMidpoint(cs, brs, thresholds, minAngle, minDepth, build) ==
    LET count == Len(cs)
        nviews == Len(brs)
        X == TriangulateBearingsMidpointSolve(cs, brs)
        rejects == [i \in 1..Min(count, Min(nviews, Len(thresholds))) |->
                      Rejects(ProjectMidpoint(X, cs[i]), brs[i], thresholds[i],
                              minDepth, X.den = 1)]
        after(walk) ==
            IF walk.fault # NoFault
            THEN {[fault |-> walk.fault, assertion |-> "not reached",
                   outcome |-> MatrixOverrun(build)]}
            ELSE IF ~walk.angle_ok
            THEN {[fault |-> NoFault, assertion |-> "not reached",
                   outcome |-> "failure"]}
            ELSE IF nviews > count
            THEN {[fault |-> Fault("centers", count, count),
                   assertion |-> "not reached", outcome |-> MatrixOverrun(build)]}
            ELSE {[fault |-> post.fault,
                   assertion |-> "not reached",
                   outcome |-> IF post.fault = NoFault
                               THEN IF post.ok THEN "success" ELSE "failure"
                               ELSE IF post.fault[1] = "bearings"
                                    THEN MatrixOverrun(build)
                                    ELSE "undefined"] :
                    post \in ReprojectionWalk(rejects, nviews, Len(thresholds), 1, count)}
    IN  UNION {after(walk) : walk \in MidpointParallaxWalk(brs, 1, count, minAngle)}

SizedMidViews ==
    { <<Zero3, AxisX, AnglePi2>>,
      <<(<<1, 1, 0>>), Scale3(-1, AxisY), AnglePi2>>,
      <<(<<1, 1, 0>>), AxisX, AnglePi6>> }

SizedDLTViews ==
    { <<PoseMatrix(LookZ, Zero3), AxisZ>>,
      <<PoseMatrix(LookX, <<-1, 0, 1>>), AxisZ>>,
      <<PoseMatrix(LookZ, Zero3), DiagCam>> }

SizedMinAngles == {Angle0, AnglePi6}

SizedMinDepths == {0, 1}

SizedInitDLT ==
    /\ fn = "DLT"
    /\ \E nr, nb \in 0..MaxSize : \E vw \in [1..MaxSize -> SizedDLTViews] :
        /\ Rts = [i \in 1..nr |-> vw[i][1]]
        /\ bearings = [i \in 1..nb |-> vw[i][2]]
    /\ centers = <<>>
    /\ threshold \in Thresholds
    /\ threshold_list = <<>>
    /\ min_angle \in SizedMinAngles
    /\ min_depth \in SizedMinDepths
    /\ triPc = "idle"
    /\ result = NoResult
    /\ szPc = "ready"
    /\ access = NoAccess
    /\ ManyIdle /\ RefineIdle /\ BindIdle /\ TestIdle

SizedInitMidpoint ==
    /\ fn = "Midpoint"
    /\ \E nc, nb, nt \in 0..MaxSize : \E vw \in [1..MaxSize -> SizedMidViews] :
        /\ centers = [i \in 1..nc |-> vw[i][1]]
        /\ bearings = [i \in 1..nb |-> vw[i][2]]
        /\ threshold_list = [i \in 1..nt |-> vw[i][3]]
    /\ Rts = <<>>
    /\ threshold = NaN
    /\ min_angle \in SizedMinAngles
    /\ min_depth \in SizedMinDepths
    /\ triPc = "idle"
    /\ result = NoResult
    /\ szPc = "ready"
    /\ access = NoAccess
    /\ ManyIdle /\ RefineIdle /\ BindIdle /\ TestIdle

SizedInit == SizedInitMidpoint \/ SizedInitDLT

SizedFrame ==
    /\ UNCHANGED <<fn, Rts, centers, bearings, threshold, threshold_list,
                   min_angle, min_depth, triPc, result>>
    /\ UNCHANGED <<manyVars, refVars, bindVars, testVars>>

CallSizedDLT ==
    /\ fn = "DLT"
    /\ szPc = "ready"
    /\ \E build \in Builds :
        access' \in SizedDLT(Rts, bearings, threshold, min_angle, min_depth, build)
    /\ szPc' = "returned"
    /\ SizedFrame

CallSizedMidpoint ==
    /\ fn = "Midpoint"
    /\ szPc = "ready"
    /\ \E build \in Builds :
        access' \in SizedMidpoint(centers, bearings, threshold_list, min_angle,
                                  min_depth, build)
    /\ szPc' = "returned"
    /\ SizedFrame

SizedNext == CallSizedMidpoint \/ CallSizedDLT

SpecSizes == SizedInit /\ [][SizedNext]_vars

SizesMismatch ==
    IF fn = "DLT" THEN Len(bearings) # Len(Rts)
    ELSE Len(bearings) # Len(centers) \/ Len(threshold_list) # Len(centers)

\* C11: whatever the sizes of Rts, centers, bearings and threshold_list,
\* a returned call has read no pose, center, bearing or threshold past the
\* end of its container, its assertion nviews == Rts.size() did not fail,
\* and it computed no result from containers of different sizes.
IndexesWithinSizes ==
    szPc = "returned" =>
        /\ access.fault = NoFault
        /\ access.assertion # "fails"
        /\ SizesMismatch => access.outcome \notin {"success", "failure"}

-----------------------------------------------------------------------------
(* The three parts together: a behaviour is a behaviour of one of them.    *)

Init == TriInit \/ ManyInit \/ RefineInit \/ BindInit \/ TestInit \/ SizedInit

Next ==
    \/ TriNext
    \/ CallMany
    \/ RefineNext
    \/ wrapper # "none" /\ BindNext
    \/ TestNext
    \/ SizedNext

Spec == Init /\ [][Next]_vars

=============================================================================
